---- MODULE Spec2Model ----
(***************************************************************************)
(* Inference decision engine of the deepfake detector:                     *)
(*   src/DeepfakeBench/training/demo_server.py  (DeepfakeDetectionServer)  *)
(*   src/native_host/server.py                  (startup configuration)    *)
(*                                                                         *)
(* Probabilities and confidences are exact fixed-point numbers: the value  *)
(* 1.0 is One units, so that the mean of two or of three probabilities of  *)
(* whole percents is again a whole number of units.  Floating-point        *)
(* rounding is not modelled.  A mean over the frames of a video is kept as *)
(* the exact fraction [sum, n].                                            *)
(***************************************************************************)
EXTENDS Integers, Sequences, FiniteSets, TLC

VARIABLES
    pc,                          \* "start" | "ready" | "image" | "video" | "done" | "failed"
    ensemble,                    \* self.ensemble
    models,                      \* keys of self.models, in insertion order
    load_outcomes,               \* what loading each requested weight file did
    FAKE_CONFIDENCE_THRESHOLD,   \* self.FAKE_CONFIDENCE_THRESHOLD (T)
    REAL_CONFIDENCE_BOOST,       \* self.REAL_CONFIDENCE_BOOST (B)
    results,                     \* what the last process_image call returned
    idx,                         \* process_video: frames consumed so far
    frames_data,                 \* process_video: the frames consumed so far, each
                                 \* TRUE iff extract_aligned_face finds a face in it
    frame_results,               \* process_video: list of scored frames
    fake_count,
    real_count,
    suspicious_count,
    converted_count,
    video_results,               \* what the last process_video call returned
    AUTH_TOKEN,                  \* native_host/server.py: DF_AUTH_TOKEN, "" when unset
    use_landmarks,               \* face_detector and landmark_predictor are loaded
    conn,                        \* per websocket connection: its handler and its peer
    frame_count,                 \* native_host/server.py global
    saved_faces_count,           \* native_host/server.py global
    saved_faces,                 \* number of face images written under PREPROCESSED_FACES_DIR
    session_start_time,          \* native_host/server.py global, None until a client connects
    face_detector,               \* self.face_detector is loaded
    landmark_predictor,          \* self.landmark_predictor is loaded
    image,                       \* the frame handed to the face functions
    face_aligned,                \* what extract_aligned_face returned for it
    bbox_norm,                   \* what detect_face_bbox_normalized returned for it
    upload,                      \* backend: the upload being processed and its loop counters
    frame_result_rows,           \* backend: the FrameResult rows stored for its session
    stdin,                       \* run_interactive: the lines not yet read from standard input
    processed_count              \* run_interactive: items processed so far

vars == <<pc, ensemble, models, load_outcomes, FAKE_CONFIDENCE_THRESHOLD, REAL_CONFIDENCE_BOOST,
          results, idx, frames_data, frame_results, fake_count, real_count,
          suspicious_count, converted_count, video_results,
          AUTH_TOKEN, use_landmarks, conn, frame_count, saved_faces_count,
          saved_faces, session_start_time, face_detector, landmark_predictor, image,
          face_aligned, bbox_norm, upload, frame_result_rows, stdin,
          processed_count>>

config == <<ensemble, models, load_outcomes, FAKE_CONFIDENCE_THRESHOLD, REAL_CONFIDENCE_BOOST>>
videoVars == <<idx, frames_data, frame_results, fake_count, real_count, suspicious_count,
               converted_count, video_results>>
wsVars == <<AUTH_TOKEN, use_landmarks, conn, frame_count, saved_faces_count,
            saved_faces, session_start_time>>
faceVars == <<face_detector, landmark_predictor, image, face_aligned, bbox_norm>>
uploadVars == <<upload, frame_result_rows>>
promptVars == <<stdin, processed_count>>

-----------------------------------------------------------------------------
(* Fixed-point scale and the numeric constants of the code.                *)

\* 1.0
One == 600
\* x percent
Pct(x) == 6 * x
\* 0.5 : prob >= 0.5 is FAKE
Half == 300
\* class default FAKE_CONFIDENCE_THRESHOLD = 0.70
DefaultThreshold == 420
\* class default REAL_CONFIDENCE_BOOST = 0.25
DefaultBoost == 150
\* 0.85 : override threshold of rules 3 and 4
OverrideConfidence == 510
\* 0.50 and 0.65 : the suspicious band
SuspiciousLow == 300
SuspiciousHigh == 390

Min(a, b) == IF a <= b THEN a ELSE b

None == "None"

\* No frame has been handed to the face functions / a function not called yet.
NoImage == [W |-> 0, H |-> 0, faces |-> <<>>, alignment |-> "ok"]
NotCalled == [called |-> FALSE]

\* No upload is being processed by the backend.
NoUpload == [path |-> "none", frame_count |-> 0, processed_count |-> 0,
             status |-> "none"]

\* model_weights of _load_models, in dictionary order
EnsembleNames == <<"FaceForensics", "SDv14", "Chameleon">>
\* display names of the single-model branch
SingleNames == {"FaceForensics", "SDv14", "Chameleon", "Custom"}
LoadOutcomes == {"ok", "missing", "corrupt"}

-----------------------------------------------------------------------------
(* Bounded inputs.                                                         *)

\* fake-probabilities a model may return for an image (percent)
ProbPercents == {0, 10, 12, 14, 15, 30, 34, 35, 40, 45, 50, 55, 65, 66, 70, 85, 86, 90, 100}
ProbValues == {Pct(x) : x \in ProbPercents}
\* thresholds and boosts accepted by the startup prompts (0..100 percent)
ThresholdValues == {Pct(0), Pct(60), DefaultThreshold, Pct(100)}
BoostValues == {Pct(0), DefaultBoost, Pct(100)}
\* process_video: frames extracted from one video at most
MaxFrames == 2
\* process_video: fake-probabilities a model may return for a frame
VideoProbValues == {Pct(10), Pct(60), Pct(75), Pct(90)}
VideoThresholdValues == {Pct(60), DefaultThreshold}
VideoBoostValues == {DefaultBoost}

-----------------------------------------------------------------------------
(* _apply_confidence_threshold                                             *)

\* variant: the threshold test is inclusive
ApplyConfidenceThresholdInclusive(prob, original_prediction, original_confidence, T, B) ==
    IF original_prediction = "FAKE" /\ original_confidence <= T
    THEN [prediction |-> "REAL",
          confidence |-> Min(original_confidence + B, One),
          was_converted |-> TRUE]
    ELSE IF original_prediction = "REAL"
    THEN [prediction |-> "REAL",
          confidence |-> Min(original_confidence + B, One),
          was_converted |-> FALSE]
    ELSE [prediction |-> original_prediction,
          confidence |-> original_confidence,
          was_converted |-> FALSE]

\* variant: the conversion branch forgets to test the label
ApplyConfidenceThresholdAnyLabel(prob, original_prediction, original_confidence, T, B) ==
    IF original_confidence < T
    THEN [prediction |-> "REAL",
          confidence |-> Min(original_confidence + B, One),
          was_converted |-> TRUE]
    ELSE IF original_prediction = "REAL"
    THEN [prediction |-> "REAL",
          confidence |-> Min(original_confidence + B, One),
          was_converted |-> FALSE]
    ELSE [prediction |-> original_prediction,
          confidence |-> original_confidence,
          was_converted |-> FALSE]

\* variant: the boosted confidence is not capped at 1.0
ApplyConfidenceThresholdNoCap(prob, original_prediction, original_confidence, T, B) ==
    IF original_prediction = "FAKE" /\ original_confidence < T
    THEN [prediction |-> "REAL",
          confidence |-> original_confidence + B,
          was_converted |-> TRUE]
    ELSE IF original_prediction = "REAL"
    THEN [prediction |-> "REAL",
          confidence |-> original_confidence + B,
          was_converted |-> FALSE]
    ELSE [prediction |-> original_prediction,
          confidence |-> original_confidence,
          was_converted |-> FALSE]

ApplyConfidenceThreshold(prob, original_prediction, original_confidence, T, B) ==
    IF original_prediction = "FAKE" /\ original_confidence < T
    THEN [prediction |-> "REAL",
          confidence |-> Min(original_confidence + B, One),
          was_converted |-> TRUE]
    ELSE IF original_prediction = "REAL"
    THEN [prediction |-> "REAL",
          confidence |-> Min(original_confidence + B, One),
          was_converted |-> FALSE]
    ELSE [prediction |-> original_prediction,
          confidence |-> original_confidence,
          was_converted |-> FALSE]

\* pred_label / confidence of a raw probability
PredLabel(prob) == IF prob >= Half THEN "FAKE" ELSE "REAL"
RawConfidence(prob) == IF prob >= Half THEN prob ELSE One - prob

\* is_single_model = len(self.models) == 1
IsSingleModel(ms) == Len(ms) = 1

\* the per-model entry of results built in the inference loop
ModelResult(prob, single, T, B) ==
    IF single
    THEN LET a == ApplyConfidenceThreshold(prob, PredLabel(prob), RawConfidence(prob), T, B)
         IN  [prob |-> prob,
              prediction |-> a.prediction,
              confidence |-> a.confidence,
              original_prediction |-> PredLabel(prob),
              original_confidence |-> RawConfidence(prob),
              was_converted |-> a.was_converted]
    ELSE [prob |-> prob,
          prediction |-> PredLabel(prob),
          confidence |-> RawConfidence(prob)]

-----------------------------------------------------------------------------
(* _add_suspicious_flag and _calculate_ensemble_verdict                    *)

\* variant: the upper end of the band is exclusive
AddSuspiciousFlagExclusive(result) ==
    IF SuspiciousLow <= result.confidence /\ result.confidence < SuspiciousHigh
    THEN result @@ [suspicious |-> TRUE, warning |-> "LOW CONFIDENCE - Result uncertain"]
    ELSE result @@ [suspicious |-> FALSE]

AddSuspiciousFlag(result) ==
    IF SuspiciousLow <= result.confidence /\ result.confidence <= SuspiciousHigh
    THEN result @@ [suspicious |-> TRUE, warning |-> "LOW CONFIDENCE - Result uncertain"]
    ELSE result @@ [suspicious |-> FALSE]

\* the entries appended to fake_predictions / real_predictions, in the
\* iteration order of results.items()
Predictions(order, res, label) ==
    LET picked == SelectSeq(order, LAMBDA m : (res[m].prediction = "FAKE") = (label = "FAKE"))
    IN  [i \in 1..Len(picked) |->
            [model |-> picked[i],
             confidence |-> res[picked[i]].confidence,
             prob |-> res[picked[i]].prob]]

\* variant: the first entry is taken instead of the best one
FirstPrediction(preds) == preds[1]

\* variant: the last entry is taken instead of the best one
LastPrediction(preds) == preds[Len(preds)]

\* max(list, key=lambda x: x['confidence']) : the first entry of greatest confidence
MaxByConfidence(preds) ==
    LET i == CHOOSE i \in 1..Len(preds) :
                /\ \A j \in 1..Len(preds) : preds[j].confidence <= preds[i].confidence
                /\ \A j \in 1..(i - 1) : preds[j].confidence < preds[i].confidence
    IN  preds[i]

RECURSIVE SumProb(_, _)
SumProb(order, res) ==
    IF order = <<>> THEN 0 ELSE res[Head(order)].prob + SumProb(Tail(order), res)

\* variant: the sum is divided by three, however many models voted
MeanProbOfThree(order, res) == SumProb(order, res) \div 3

\* np.mean([r['prob'] for r in results.values()])
MeanProb(order, res) == SumProb(order, res) \div Len(order)

Verdict(pred, label, rule, details) ==
    [prob |-> pred.prob, prediction |-> label, confidence |-> pred.confidence,
     rule |-> rule, details |-> details]

\* variant: a confidence of exactly 0.85 already overrides
ReachesOverride(confidence) == confidence >= OverrideConfidence

\* fake_model['confidence'] > 0.85 and its three siblings
ExceedsOverride(confidence) == confidence > OverrideConfidence

\* Rule 1: All predict FAKE
Rule1(fake_predictions) ==
    LET best_fake == MaxByConfidence(fake_predictions)
    IN  Verdict(best_fake, "FAKE", "Rule 1: All models predict FAKE", best_fake.model)

\* Rule 2: All predict REAL
Rule2(real_predictions) ==
    LET best_real == MaxByConfidence(real_predictions)
    IN  Verdict(best_real, "REAL", "Rule 2: All models predict REAL", best_real.model)

\* Rule 3: 1 FAKE, 2 REAL
Rule3(fake_predictions, real_predictions) ==
    LET fake_model == fake_predictions[1]
        best_real == MaxByConfidence(real_predictions)
    IN  IF ExceedsOverride(fake_model.confidence)
        THEN IF ExceedsOverride(best_real.confidence)
             THEN Verdict(best_real, "REAL",
                    "Rule 3: Counter-Override - Both sides >85%, majority wins (REAL)", "")
             ELSE Verdict(fake_model, "FAKE",
                    "Rule 3: Override - FAKE model has >85% confidence", fake_model.model)
        ELSE Verdict(best_real, "REAL",
                    "Rule 3: Majority vote REAL (2 vs 1)", best_real.model)

\* variant: rule 4 without the counter-override of rule 3
Rule4NoCounterOverride(fake_predictions, real_predictions) ==
    LET real_model == real_predictions[1]
        best_fake == MaxByConfidence(fake_predictions)
    IN  IF ExceedsOverride(real_model.confidence)
        THEN Verdict(real_model, "REAL",
                    "Rule 4: Override - REAL model has >85% confidence", real_model.model)
        ELSE Verdict(best_fake, "FAKE",
                    "Rule 4: Majority vote FAKE (2 vs 1)", best_fake.model)

\* Rule 4: 2 FAKE, 1 REAL
Rule4(fake_predictions, real_predictions) ==
    LET real_model == real_predictions[1]
        best_fake == MaxByConfidence(fake_predictions)
    IN  IF ExceedsOverride(real_model.confidence)
        THEN IF ExceedsOverride(best_fake.confidence)
             THEN Verdict(best_fake, "FAKE",
                    "Rule 4: Counter-Override - Both sides >85%, majority wins (FAKE)", "")
             ELSE Verdict(real_model, "REAL",
                    "Rule 4: Override - REAL model has >85% confidence", real_model.model)
        ELSE Verdict(best_fake, "FAKE",
                    "Rule 4: Majority vote FAKE (2 vs 1)", best_fake.model)

\* Fallback
Fallback(order, res) ==
    LET avg_prob == MeanProb(order, res)
    IN  [prob |-> avg_prob,
         prediction |-> PredLabel(avg_prob),
         confidence |-> RawConfidence(avg_prob),
         rule |-> "Fallback: Simple average",
         details |-> "Using standard averaging"]

\* variant: the rules look at the share of the votes, not at their number
EnsembleResultByShare(order, res) ==
    LET fake_predictions == Predictions(order, res, "FAKE")
        real_predictions == Predictions(order, res, "REAL")
        num_fake == Len(fake_predictions)
        num_real == Len(real_predictions)
    IN  IF num_fake > 0 /\ num_real = 0 THEN Rule1(fake_predictions)
        ELSE IF num_fake = 0 /\ num_real > 0 THEN Rule2(real_predictions)
        ELSE IF num_fake = 1 /\ num_real = 2 THEN Rule3(fake_predictions, real_predictions)
        ELSE IF num_fake = 2 /\ num_real = 1 THEN Rule4(fake_predictions, real_predictions)
        ELSE Fallback(order, res)

\* the dictionary `result` before _add_suspicious_flag is applied to it
EnsembleResult(order, res) ==
    LET fake_predictions == Predictions(order, res, "FAKE")
        real_predictions == Predictions(order, res, "REAL")
        num_fake == Len(fake_predictions)
        num_real == Len(real_predictions)
    IN  IF num_fake = 3 /\ num_real = 0 THEN Rule1(fake_predictions)
        ELSE IF num_fake = 0 /\ num_real = 3 THEN Rule2(real_predictions)
        ELSE IF num_fake = 1 /\ num_real = 2 THEN Rule3(fake_predictions, real_predictions)
        ELSE IF num_fake = 2 /\ num_real = 1 THEN Rule4(fake_predictions, real_predictions)
        ELSE Fallback(order, res)

CalculateEnsembleVerdict(order, res) == AddSuspiciousFlag(EnsembleResult(order, res))

-----------------------------------------------------------------------------
(* Startup: DeepfakeDetectionServer.__init__ / _load_models, followed by   *)
(* the override of threshold and boost by the streaming server.            *)

\* names of the ensemble models that end up in self.models
LoadedEnsemble(outcome) == SelectSeq(EnsembleNames, LAMBDA m : outcome[m] = "ok")

Init ==
    /\ pc = "start"
    /\ ensemble = FALSE
    /\ models = <<>>
    /\ load_outcomes = <<>>
    /\ FAKE_CONFIDENCE_THRESHOLD = DefaultThreshold
    /\ REAL_CONFIDENCE_BOOST = DefaultBoost
    /\ results = None
    /\ idx = 0
    /\ frames_data = <<>>
    /\ frame_results = <<>>
    /\ fake_count = 0
    /\ real_count = 0
    /\ suspicious_count = 0
    /\ converted_count = 0
    /\ video_results = None
    /\ AUTH_TOKEN = ""
    /\ use_landmarks = TRUE
    /\ conn = <<>>
    /\ frame_count = 0
    /\ saved_faces_count = 0
    /\ saved_faces = 0
    /\ session_start_time = None
    /\ face_detector = TRUE
    /\ landmark_predictor = use_landmarks
    /\ image = NoImage
    /\ face_aligned = NotCalled
    /\ bbox_norm = NotCalled
    /\ upload = NoUpload
    /\ frame_result_rows = <<>>
    /\ stdin = <<>>
    /\ processed_count = 0

StartEnsemble(outcome, T, B) ==
    /\ ensemble' = TRUE
    /\ load_outcomes' = outcome
    /\ IF (\E m \in DOMAIN outcome : outcome[m] = "corrupt") \/ LoadedEnsemble(outcome) = <<>>
       THEN /\ pc' = "failed"
            /\ models' = <<>>
            /\ UNCHANGED <<FAKE_CONFIDENCE_THRESHOLD, REAL_CONFIDENCE_BOOST>>
       ELSE /\ pc' = "ready"
            /\ models' = LoadedEnsemble(outcome)
            /\ FAKE_CONFIDENCE_THRESHOLD' = T
            /\ REAL_CONFIDENCE_BOOST' = B

StartSingle(name, outcome, T, B) ==
    /\ ensemble' = FALSE
    /\ load_outcomes' = [m \in {name} |-> outcome]
    /\ IF outcome # "ok"
       THEN /\ pc' = "failed"
            /\ models' = <<>>
            /\ UNCHANGED <<FAKE_CONFIDENCE_THRESHOLD, REAL_CONFIDENCE_BOOST>>
       ELSE /\ pc' = "ready"
            /\ models' = <<name>>
            /\ FAKE_CONFIDENCE_THRESHOLD' = T
            /\ REAL_CONFIDENCE_BOOST' = B

StartupWith(Ts, Bs) ==
    /\ pc = "start"
    /\ \E T \in Ts, B \in Bs :
         \/ \E outcome \in [{EnsembleNames[i] : i \in 1..3} -> LoadOutcomes] :
                StartEnsemble(outcome, T, B)
         \/ \E name \in SingleNames, outcome \in LoadOutcomes :
                StartSingle(name, outcome, T, B)
    /\ UNCHANGED <<results, videoVars>>
    /\ UNCHANGED wsVars
    /\ UNCHANGED faceVars
    /\ UNCHANGED uploadVars
    /\ UNCHANGED promptVars

Startup == StartupWith(ThresholdValues, BoostValues)

-----------------------------------------------------------------------------
(* process_image                                                           *)

\* the dictionary returned for one face, given each model's probability
FrameResults(order, probs, T, B) ==
    LET per == [m \in {order[i] : i \in 1..Len(order)} |->
                    ModelResult(probs[m], IsSingleModel(order), T, B)]
    IN  IF Len(order) > 1
        THEN per @@ [ENSEMBLE |-> CalculateEnsembleVerdict(order, per)]
        ELSE per

ProcessImage ==
    /\ pc = "ready"
    /\ pc' = "image"
    /\ \/ results' = [error |-> "No face detected in image"]
       \/ \E probs \in [{models[i] : i \in 1..Len(models)} -> ProbValues] :
            results' = FrameResults(models, probs, FAKE_CONFIDENCE_THRESHOLD,
                                    REAL_CONFIDENCE_BOOST)
    /\ UNCHANGED <<config, videoVars>>
    /\ UNCHANGED wsVars
    /\ UNCHANGED faceVars
    /\ UNCHANGED uploadVars
    /\ UNCHANGED promptVars

\* run_interactive: print_results, then back to the prompt; the local
\* `results` of the finished iteration is dead
PrintResults ==
    /\ pc = "image"
    /\ pc' = "ready"
    /\ results' = None
    /\ UNCHANGED <<config, videoVars>>
    /\ UNCHANGED wsVars
    /\ UNCHANGED faceVars
    /\ UNCHANGED uploadVars
    /\ UNCHANGED promptVars

-----------------------------------------------------------------------------
(* process_video                                                           *)

RECURSIVE SumSeq(_)
SumSeq(s) == IF s = <<>> THEN 0 ELSE Head(s) + SumSeq(Tail(s))

\* np.mean(list) if list else 0.0, as the exact fraction sum / n
MeanOrZero(list) ==
    IF list = <<>> THEN [sum |-> 0, n |-> 1] ELSE [sum |-> SumSeq(list), n |-> Len(list)]

\* [f[key]['confidence'] for f in frames if f[key]['prediction'] == label]
ConfidencesOf(frames, key, label) ==
    LET picked == SelectSeq(frames, LAMBDA f : f[key].prediction = label)
    IN  [i \in 1..Len(picked) |-> picked[i][key].confidence]

\* variant: a tie goes to FAKE
FakeWinsTie(fakes, reals) == fakes >= reals

\* variant: the comparison is the wrong way round
FakeWinsInverted(fakes, reals) == reals > fakes

\* fake_count > real_count
FakeWins(fakes, reals) == fakes > reals

\* variant: every extracted frame is counted as analyzed
TotalExtracted(frames) == idx

\* total_analyzed = len(frame_results)
TotalAnalyzed(frames) == Len(frames)

\* video verdict of single model mode
SingleVideoVerdict(frames, model_name, fakes, reals, converted) ==
    LET video_verdict == IF FakeWins(fakes, reals) THEN "FAKE" ELSE "REAL"
    IN  [video_verdict |-> video_verdict,
         video_confidence |-> MeanOrZero(ConfidencesOf(frames, model_name, video_verdict)),
         total_frames_analyzed |-> TotalAnalyzed(frames),
         fake_frames |-> fakes,
         real_frames |-> reals,
         converted_frames |-> converted]

\* the three confidence lists of ensemble mode
EnsembleConfidences(frames, bucket) ==
    LET withEns == SelectSeq(frames, LAMBDA f : "ENSEMBLE" \in DOMAIN f)
        inBucket(f) ==
            IF f.ENSEMBLE.suspicious THEN bucket = "SUSPICIOUS"
            ELSE IF f.ENSEMBLE.prediction = "FAKE" THEN bucket = "FAKE"
            ELSE bucket = "REAL"
        picked == SelectSeq(withEns, inBucket)
    IN  [i \in 1..Len(picked) |-> picked[i].ENSEMBLE.confidence]

\* variant: a suspicious bucket that only ties the largest one wins
SuspiciousWinsTie(suspicious, fakes, reals) == suspicious >= fakes /\ suspicious >= reals

\* suspicious_count > fake_count and suspicious_count > real_count
SuspiciousWins(suspicious, fakes, reals) == suspicious > fakes /\ suspicious > reals

\* video verdict of ensemble mode
EnsembleVideoVerdict(frames, fakes, reals, suspicious) ==
    LET video_verdict ==
            IF SuspiciousWins(suspicious, fakes, reals) THEN "SUSPICIOUS"
            ELSE IF FakeWins(fakes, reals) THEN "FAKE"
            ELSE "REAL"
    IN  [video_verdict |-> video_verdict,
         video_confidence |-> MeanOrZero(EnsembleConfidences(frames, video_verdict)),
         total_frames_analyzed |-> TotalAnalyzed(frames),
         fake_frames |-> fakes,
         real_frames |-> reals,
         suspicious_frames |-> suspicious]

BeginVideo ==
    /\ pc = "ready"
    /\ pc' = "video"
    /\ idx' = 0
    /\ frames_data' = <<>>
    /\ frame_results' = <<>>
    /\ fake_count' = 0
    /\ real_count' = 0
    /\ suspicious_count' = 0
    /\ converted_count' = 0
    /\ video_results' = None
    /\ UNCHANGED <<config, results>>
    /\ UNCHANGED wsVars
    /\ UNCHANGED faceVars
    /\ UNCHANGED uploadVars
    /\ UNCHANGED promptVars

\* one iteration of `for idx, frame_data in enumerate(frames_data, 1)`
ScoreFrame(probs) ==
    LET frame_result == [frame_number |-> idx + 1] @@
                        FrameResults(models, probs, FAKE_CONFIDENCE_THRESHOLD,
                                     REAL_CONFIDENCE_BOOST)
        model_name == models[1]
    IN  /\ frame_results' = Append(frame_results, frame_result)
        /\ converted_count' =
              IF IsSingleModel(models) /\ frame_result[model_name].was_converted
              THEN converted_count + 1 ELSE converted_count
        /\ IF Len(models) > 1
           THEN IF frame_result.ENSEMBLE.suspicious
                THEN /\ suspicious_count' = suspicious_count + 1
                     /\ UNCHANGED <<fake_count, real_count>>
                ELSE IF frame_result.ENSEMBLE.prediction = "FAKE"
                THEN /\ fake_count' = fake_count + 1
                     /\ UNCHANGED <<real_count, suspicious_count>>
                ELSE /\ real_count' = real_count + 1
                     /\ UNCHANGED <<fake_count, suspicious_count>>
           ELSE IF frame_result[model_name].prediction = "FAKE"
                THEN /\ fake_count' = fake_count + 1
                     /\ UNCHANGED <<real_count, suspicious_count>>
                ELSE /\ real_count' = real_count + 1
                     /\ UNCHANGED <<fake_count, suspicious_count>>

ProcessVideoFrame ==
    /\ pc = "video"
    /\ idx < MaxFrames
    /\ idx' = idx + 1
    /\ \/ \* extract_aligned_face returned None: continue
          /\ frames_data' = Append(frames_data, FALSE)
          /\ UNCHANGED <<frame_results, fake_count, real_count, suspicious_count,
                         converted_count>>
       \/ /\ frames_data' = Append(frames_data, TRUE)
          /\ \E probs \in [{models[i] : i \in 1..Len(models)} -> VideoProbValues] :
                ScoreFrame(probs)
    /\ UNCHANGED <<pc, config, results, video_results>>
    /\ UNCHANGED wsVars
    /\ UNCHANGED faceVars
    /\ UNCHANGED uploadVars
    /\ UNCHANGED promptVars

\* frames_data is exhausted: the code after the loop
FinishVideo ==
    /\ pc = "video"
    /\ pc' = "done"
    /\ video_results' =
         IF idx = 0 THEN [error |-> "No frames extracted from video"]
         ELSE IF frame_results = <<>>
         THEN [error |-> "No frames could be analyzed (no faces detected)"]
         ELSE IF IsSingleModel(models)
         THEN SingleVideoVerdict(frame_results, models[1], fake_count, real_count,
                                 converted_count)
         ELSE EnsembleVideoVerdict(frame_results, fake_count, real_count,
                                   suspicious_count)
    /\ UNCHANGED <<config, results, idx, frames_data, frame_results, fake_count,
                   real_count, suspicious_count, converted_count>>
    /\ UNCHANGED wsVars
    /\ UNCHANGED faceVars
    /\ UNCHANGED uploadVars
    /\ UNCHANGED promptVars

\* run_interactive: print_video_results, then back to the prompt; the
\* locals of the finished call are dead
PrintVideoResults ==
    /\ pc = "done"
    /\ pc' = "ready"
    /\ idx' = 0
    /\ frames_data' = <<>>
    /\ frame_results' = <<>>
    /\ fake_count' = 0
    /\ real_count' = 0
    /\ suspicious_count' = 0
    /\ converted_count' = 0
    /\ video_results' = None
    /\ UNCHANGED <<config, results>>
    /\ UNCHANGED wsVars
    /\ UNCHANGED faceVars
    /\ UNCHANGED uploadVars
    /\ UNCHANGED promptVars

StartupVideo == StartupWith(VideoThresholdValues, VideoBoostValues)

NextVideo ==
    \/ StartupVideo
    \/ BeginVideo
    \/ ProcessVideoFrame
    \/ FinishVideo
    \/ PrintVideoResults

SpecVideo == Init /\ [][NextVideo]_vars

-----------------------------------------------------------------------------
Next ==
    \/ Startup
    \/ ProcessImage
    \/ PrintResults

Spec == Init /\ [][Next]_vars

-----------------------------------------------------------------------------
(* Properties.                                                             *)

ModelSet == {models[i] : i \in 1..Len(models)}

\* process_image has returned per-model predictions
ImageScored == pc = "image" /\ "error" \notin DOMAIN results

\* the per-model part of results
PerModel == [m \in ModelSet |-> results[m]]

Flip(label) == IF label = "FAKE" THEN "REAL" ELSE "FAKE"

\* greatest confidence among the models of S
BestConfidence(S) ==
    CHOOSE c \in {results[m].confidence : m \in S} :
        \A m \in S : results[m].confidence <= c

FakeVoters == {m \in ModelSet : results[m].prediction = "FAKE"}
RealVoters == {m \in ModelSet : results[m].prediction = "REAL"}

\* C1: in single-model mode a FAKE below T becomes REAL with confidence
\* min(c + B, 1.0) and was_converted = true; a REAL keeps its label, gets
\* min(c + B, 1.0) and was_converted = false; a FAKE at or above T is
\* returned unchanged with was_converted = false.
C1_ThresholdRule ==
    (ImageScored /\ ~ensemble) =>
        LET r == results[models[1]]
            l == r.original_prediction
            c == r.original_confidence
            T == FAKE_CONFIDENCE_THRESHOLD
            B == REAL_CONFIDENCE_BOOST
        IN  /\ c >= Half /\ c <= One
            /\ (l = "FAKE" /\ c < T) =>
                  /\ r.prediction = "REAL"
                  /\ r.confidence = (IF c + B < One THEN c + B ELSE One)
                  /\ r.was_converted = TRUE
            /\ (l = "REAL") =>
                  /\ r.prediction = "REAL"
                  /\ r.confidence = (IF c + B < One THEN c + B ELSE One)
                  /\ r.was_converted = FALSE
            /\ (l = "FAKE" /\ c >= T) =>
                  /\ r.prediction = "FAKE"
                  /\ r.confidence = c
                  /\ r.was_converted = FALSE

\* a FAKE exactly at the threshold is kept, and a FAKE below it is converted
C1_Witness ==
    /\ ImageScored /\ ~ensemble
    /\ results[models[1]].original_prediction = "FAKE"
    /\ results[models[1]].original_confidence = FAKE_CONFIDENCE_THRESHOLD
    /\ results[models[1]].prediction = "FAKE"
    /\ FAKE_CONFIDENCE_THRESHOLD = DefaultThreshold

\* C2: a process started in ensemble mode never applies the threshold/boost:
\* every model's reported label and confidence are the raw ones and
\* was_converted is never true, however many models loaded.
C2_EnsembleModeIsRaw ==
    (ImageScored /\ ensemble) =>
        \A m \in ModelSet :
            /\ results[m].prediction = PredLabel(results[m].prob)
            /\ results[m].confidence = RawConfidence(results[m].prob)
            /\ ("was_converted" \in DOMAIN results[m]) => ~results[m].was_converted

\* C3: with 1 FAKE and 2 REAL votes the verdict is REAL with the best REAL
\* confidence when both the lone FAKE and the best REAL exceed 0.85, FAKE
\* with the lone FAKE confidence when only the lone FAKE exceeds 0.85, and
\* REAL with the best REAL confidence when the lone FAKE is at most 0.85.
C3_OneFakeTwoReal ==
    (ImageScored /\ Len(models) = 3 /\ Cardinality(FakeVoters) = 1) =>
        LET fc == BestConfidence(FakeVoters)
            rc == BestConfidence(RealVoters)
            v == results.ENSEMBLE
        IN  /\ (fc > OverrideConfidence /\ rc > OverrideConfidence) =>
                  (v.prediction = "REAL" /\ v.confidence = rc)
            /\ (fc > OverrideConfidence /\ rc <= OverrideConfidence) =>
                  (v.prediction = "FAKE" /\ v.confidence = fc)
            /\ (fc <= OverrideConfidence) =>
                  (v.prediction = "REAL" /\ v.confidence = rc)

\* votes (FAKE, 0.90), (REAL, 0.60), (REAL, 0.55) give FAKE 0.90
C3_Witness ==
    /\ ImageScored /\ Len(models) = 3
    /\ results[models[1]].prob = Pct(90)
    /\ results[models[2]].prob = Pct(40)
    /\ results[models[3]].prob = Pct(45)
    /\ results.ENSEMBLE.prediction = "FAKE"
    /\ results.ENSEMBLE.confidence = Pct(90)

\* the three votes with every label replaced by its opposite
MirrorVotes ==
    [m \in ModelSet |->
        [prob |-> One - results[m].prob,
         prediction |-> Flip(results[m].prediction),
         confidence |-> results[m].confidence]]

\* C4: replacing each of three votes' labels by its opposite, confidences
\* kept, flips the verdict's label and keeps the verdict's confidence.
C4_Mirror ==
    (ImageScored /\ Len(models) = 3) =>
        LET v == results.ENSEMBLE
            w == CalculateEnsembleVerdict(models, MirrorVotes)
        IN  /\ w.prediction = Flip(v.prediction)
            /\ w.confidence = v.confidence

\* 2 FAKE / 1 REAL with both sides above 0.85: the counter-override of rule 4
C4_Witness ==
    /\ ImageScored /\ Len(models) = 3
    /\ Cardinality(FakeVoters) = 2
    /\ BestConfidence(RealVoters) > OverrideConfidence
    /\ BestConfidence(FakeVoters) > OverrideConfidence
    /\ results.ENSEMBLE.prediction = "FAKE"

\* C5: three unanimous votes give the unanimous label with the greatest of
\* the three confidences.
C5_Unanimous ==
    (ImageScored /\ Len(models) = 3) =>
        /\ (Cardinality(FakeVoters) = 3) =>
              /\ results.ENSEMBLE.prediction = "FAKE"
              /\ results.ENSEMBLE.confidence = BestConfidence(ModelSet)
        /\ (Cardinality(RealVoters) = 3) =>
              /\ results.ENSEMBLE.prediction = "REAL"
              /\ results.ENSEMBLE.confidence = BestConfidence(ModelSet)

\* unanimous FAKE whose most confident vote is not the first one
C5_Witness ==
    /\ ImageScored /\ Len(models) = 3
    /\ Cardinality(FakeVoters) = 3
    /\ results[models[1]].confidence < results[models[3]].confidence
    /\ results.ENSEMBLE.confidence = results[models[3]].confidence

\* the rule strings of each of the five voting rules
RuleStrings ==
    [rule1 |-> {"Rule 1: All models predict FAKE"},
     rule2 |-> {"Rule 2: All models predict REAL"},
     rule3 |-> {"Rule 3: Counter-Override - Both sides >85%, majority wins (REAL)",
                "Rule 3: Override - FAKE model has >85% confidence",
                "Rule 3: Majority vote REAL (2 vs 1)"},
     rule4 |-> {"Rule 4: Counter-Override - Both sides >85%, majority wins (FAKE)",
                "Rule 4: Override - REAL model has >85% confidence",
                "Rule 4: Majority vote FAKE (2 vs 1)"},
     fallback |-> {"Fallback: Simple average"}]

RuleIdsOf(rule) == {id \in DOMAIN RuleStrings : rule \in RuleStrings[id]}

\* the rule the vote counts call for
RuleOfCounts(nf, nr) ==
    IF nf = 3 /\ nr = 0 THEN "rule1"
    ELSE IF nf = 0 /\ nr = 3 THEN "rule2"
    ELSE IF nf = 1 /\ nr = 2 THEN "rule3"
    ELSE IF nf = 2 /\ nr = 1 THEN "rule4"
    ELSE "fallback"

\* the six orders in which the three loaded models can be iterated
ModelOrders ==
    {o \in [1..3 -> ModelSet] : \A i, j \in 1..3 : o[i] = o[j] => i = j}

\* C6: with three models the verdict carries exactly one rule, the one the
\* vote counts call for, and rule, label and confidence depend on the three
\* (label, confidence) pairs only: they are the same for every order and
\* naming of the models, after any earlier frames and under any T and B.
C6_PureFunctionOfVotes ==
    (ImageScored /\ Len(models) = 3) =>
        LET v == results.ENSEMBLE
        IN  /\ RuleIdsOf(v.rule) =
                  {RuleOfCounts(Cardinality(FakeVoters), Cardinality(RealVoters))}
            /\ \A o \in ModelOrders :
                  LET w == CalculateEnsembleVerdict(o, PerModel)
                  IN  /\ w.rule = v.rule
                      /\ w.prediction = v.prediction
                      /\ w.confidence = v.confidence

\* rule 3 majority whose best REAL vote is the last model's
C6_Witness ==
    /\ ImageScored /\ Len(models) = 3
    /\ results.ENSEMBLE.rule = "Rule 3: Majority vote REAL (2 vs 1)"
    /\ results[models[3]].prediction = "REAL"
    /\ results[models[3]].confidence = results.ENSEMBLE.confidence
    /\ \A m \in ModelSet \ {models[3]} :
          results[m].confidence < results[models[3]].confidence

\* process_image has returned an ensemble verdict
HasEnsemble == ImageScored /\ "ENSEMBLE" \in DOMAIN results

\* C7: an ensemble verdict is suspicious iff 0.50 <= confidence <= 0.65, and
\* the flag leaves the verdict's label and confidence as the rule set them.
C7_SuspiciousBand ==
    HasEnsemble =>
        LET v == results.ENSEMBLE
            unflagged == EnsembleResult(models, PerModel)
        IN  /\ v.suspicious = (Pct(50) <= v.confidence /\ v.confidence <= Pct(65))
            /\ v.prediction = unflagged.prediction
            /\ v.confidence = unflagged.confidence

\* a fallback verdict of confidence exactly 0.65 is suspicious
C7_Witness ==
    /\ HasEnsemble
    /\ results.ENSEMBLE.rule = "Fallback: Simple average"
    /\ results.ENSEMBLE.confidence = Pct(65)
    /\ results.ENSEMBLE.suspicious = TRUE

\* a rule 1..4 verdict of confidence exactly 0.65 is suspicious
C7_WitnessRules ==
    /\ HasEnsemble /\ Len(models) = 3
    /\ results.ENSEMBLE.confidence = Pct(65)
    /\ results.ENSEMBLE.suspicious = TRUE

\* _apply_confidence_threshold applied to the prediction it has returned
Reapplied ==
    LET r == results[models[1]]
    IN  ApplyConfidenceThreshold(r.prob, r.prediction, r.confidence,
                                 FAKE_CONFIDENCE_THRESHOLD, REAL_CONFIDENCE_BOOST)

\* the rule has been applied to the single loaded model's prediction
Adjusted == ImageScored /\ IsSingleModel(models)

\* C8 (as claimed): re-applying the rule to its own output returns the same
\* label and the same confidence with was_converted = false.
C8_Idempotent ==
    Adjusted =>
        /\ Reapplied.prediction = results[models[1]].prediction
        /\ Reapplied.confidence = results[models[1]].confidence
        /\ Reapplied.was_converted = FALSE

\* C8 (amended): re-applying the rule to its own output returns the same
\* label with was_converted = false; a FAKE output keeps its confidence and
\* a REAL output c is boosted again to min(c + B, 1.0).
C8_ReapplyKeepsLabel ==
    Adjusted =>
        LET r == results[models[1]]
            B == REAL_CONFIDENCE_BOOST
        IN  /\ Reapplied.prediction = r.prediction
            /\ Reapplied.was_converted = FALSE
            /\ (r.prediction = "FAKE") => Reapplied.confidence = r.confidence
            /\ (r.prediction = "REAL") =>
                  Reapplied.confidence =
                      (IF r.confidence + B < One THEN r.confidence + B ELSE One)

\* a converted REAL below the threshold is not converted again, but boosted again
C8_Witness ==
    /\ Adjusted
    /\ results[models[1]].was_converted = TRUE
    /\ results[models[1]].confidence < FAKE_CONFIDENCE_THRESHOLD
    /\ Reapplied.prediction = "REAL"
    /\ Reapplied.was_converted = FALSE
    /\ Reapplied.confidence > results[models[1]].confidence

\* C9: every confidence reported for a model and every ensemble verdict's
\* confidence lies in [0.0, 1.0], for every T and B between 0 and 1.
C9_ConfidenceInUnitInterval ==
    ImageScored =>
        \A k \in DOMAIN results :
            results[k].confidence >= 0 /\ results[k].confidence <= One

\* a boost that would pass 1.0 is capped
C9_Witness ==
    /\ Adjusted
    /\ results[models[1]].original_confidence + REAL_CONFIDENCE_BOOST > One
    /\ results[models[1]].prediction = "REAL"
    /\ results[models[1]].confidence = One

\* a fallback verdict, whose confidence is a mean or its complement
C9_WitnessFallback ==
    /\ HasEnsemble
    /\ results.ENSEMBLE.rule = "Fallback: Simple average"
    /\ results.ENSEMBLE.prediction = "REAL"

\* process_video has returned a verdict
VideoJudged == pc = "done" /\ "video_verdict" \in DOMAIN video_results

\* indices of the scored frames whose label for key is label
FramesLabelled(key, label) ==
    {i \in 1..Len(frame_results) : frame_results[i][key].prediction = label}

RECURSIVE SumConfidence(_, _)
SumConfidence(S, key) ==
    IF S = {} THEN 0
    ELSE LET i == CHOOSE i \in S : TRUE
         IN  frame_results[i][key].confidence + SumConfidence(S \ {i}, key)

C10_WitnessMean ==
    /\ VideoJudged /\ ~ensemble
    /\ real_count = 2
    /\ frame_results[1][models[1]].confidence # frame_results[2][models[1]].confidence
    /\ video_results.video_verdict = "REAL"

-----------------------------------------------------------------------------
(* Properties of the video verdict.                                        *)

\* the key under which a scored frame carries the prediction that is counted
CountedKey == IF IsSingleModel(models) THEN models[1] ELSE "ENSEMBLE"

\* the bucket a scored frame is counted in
BucketOf(f) ==
    IF ~IsSingleModel(models) /\ f.ENSEMBLE.suspicious THEN "SUSPICIOUS"
    ELSE f[CountedKey].prediction

FramesInBucket(bucket) ==
    {i \in 1..Len(frame_results) : BucketOf(frame_results[i]) = bucket}

\* greatest confidence among the scored frames of S
MaxFrameConfidence(S) ==
    CHOOSE c \in {frame_results[i][CountedKey].confidence : i \in S} :
        \A i \in S : frame_results[i][CountedKey].confidence <= c

\* C11: the video confidence is the maximum confidence among the frames of
\* the winning class.
C11_VideoConfidenceIsMax ==
    VideoJudged =>
        LET winners == FramesInBucket(video_results.video_verdict)
            mean == video_results.video_confidence
        IN  /\ winners # {}
            /\ mean.sum = MaxFrameConfidence(winners) * mean.n

C12_WitnessSuspicious ==
    /\ VideoJudged /\ ensemble /\ Len(models) > 1
    /\ suspicious_count = 2
    /\ video_results.video_verdict = "SUSPICIOUS"
    /\ frame_results[1].ENSEMBLE.confidence # frame_results[2].ENSEMBLE.confidence

\* frames for which extract_aligned_face returned a face / returned None
FacedFrames == {i \in 1..Len(frames_data) : frames_data[i]}
NoFaceFrames == {i \in 1..Len(frames_data) : ~frames_data[i]}

\* C13: fake_frames + real_frames + suspicious_frames (0 in single-model
\* mode) equals total_frames_analyzed, and the frames counted are exactly the
\* frames in which a face was found: no NO_FACE frame is counted anywhere.
C13_CountsSumToTotal ==
    VideoJudged =>
        LET v == video_results
            suspicious_frames ==
                IF "suspicious_frames" \in DOMAIN v THEN v.suspicious_frames ELSE 0
        IN  /\ v.fake_frames + v.real_frames + suspicious_frames = v.total_frames_analyzed
            /\ v.total_frames_analyzed = Cardinality(FacedFrames)
            /\ {frame_results[i].frame_number : i \in 1..Len(frame_results)} = FacedFrames
            /\ v.fake_frames = Cardinality(FramesInBucket("FAKE"))
            /\ v.real_frames = Cardinality(FramesInBucket("REAL"))
            /\ suspicious_frames = Cardinality(FramesInBucket("SUSPICIOUS"))

\* a verdict over a video with one NO_FACE frame and one scored frame
C13_Witness ==
    /\ VideoJudged
    /\ NoFaceFrames # {}
    /\ FacedFrames # {}
    /\ video_results.total_frames_analyzed = 1

-----------------------------------------------------------------------------
(* Properties of startup.                                                  *)

\* the constructor has returned or raised
Started == pc # "start"

\* the requested models whose weights loaded
LoadedOk == {m \in DOMAIN load_outcomes : load_outcomes[m] = "ok"}

\* C19: in single-model mode any load failure aborts startup; in ensemble
\* mode every model whose weights are missing or corrupt is skipped, the
\* others are kept, and startup is refused iff no model loaded.
C19_LoadFailures ==
    Started =>
        /\ ~ensemble => ((pc = "failed") = (LoadedOk = {}))
        /\ ensemble =>
              /\ (pc = "failed") = (LoadedOk = {})
              /\ (pc # "failed") => {models[i] : i \in 1..Len(models)} = LoadedOk

-----------------------------------------------------------------------------
(* native_host/server.py: the websocket frame server.  One handler          *)
(* coroutine per connection on one event loop; infer_using_server runs in   *)
(* the default thread pool.                                                 *)

Conns == {"c1", "c2"}

\* messages the peers send, over all connections
MaxMsgs == 2

\* what a text message can be, as far as the handler tells payloads apart:
\*   invalid_json       json.loads raises
\*   non_object         valid JSON that is not an object ([], "x", 5, null)
\*   wrong_token        an object whose 'token' is absent or not AUTH_TOKEN,
\*                      whatever else it holds (only when AUTH_TOKEN is set)
\*   other_type         an object whose 'type' is absent or not 'frame'
\*   frame_bad_id       a frame whose 'id' is neither a string nor absent
\*   frame_no_data      a frame without 'frameB64' (or with an empty one)
\*   frame_undecodable  a frame whose 'frameB64' is not an image
\*   frame_image        a frame carrying a decodable image
MessageKinds ==
    {"invalid_json", "non_object", "wrong_token", "other_type", "frame_bad_id", "frame_no_data",
     "frame_undecodable", "frame_image"}

FrameKinds == {"frame_bad_id", "frame_no_data", "frame_undecodable", "frame_image"}

HandlerProbValues == {Pct(10), Pct(90)}

\* what happens to one decoded frame inside infer_using_server: whether the
\* image shows a face the aligner finds, where (if anywhere) an exception is
\* raised, whether the exception's text contains "no face" (it carries the
\* client's videoId when mkdir fails), and the probability the models give
WorkerScenes ==
    {[face |-> TRUE, raises |-> "nowhere", no_face_text |-> FALSE, prob |-> p] :
        p \in HandlerProbValues}
    \cup {[face |-> FALSE, raises |-> "nowhere", no_face_text |-> FALSE, prob |-> Pct(10)]}
    \cup {[face |-> TRUE, raises |-> "save", no_face_text |-> t, prob |-> Pct(90)] :
            t \in BOOLEAN}
    \cup {[face |-> TRUE, raises |-> "inference", no_face_text |-> FALSE, prob |-> Pct(90)]}

\* no message, no results, no scene in hand, no response delivered yet
NoMsg == [kind |-> "none"]
NoResults == [none |-> TRUE]
NoScene == [face |-> FALSE, raises |-> "unused", no_face_text |-> FALSE, prob |-> 0]
NoResponse == [type |-> "none", kind |-> "none", for |-> 0]

\* a connection nobody has opened yet
NoConn ==
    [state |-> "absent",        \* absent | await | infer | infer_done | ended
     exit |-> None,             \* how the handler ended: loop_end | ConnectionClosed | Exception
     open |-> FALSE,            \* the connection is open
     peer_closed |-> FALSE,     \* the client closed it
     closed_in_flight |-> FALSE, \* ... while a frame of it was in the worker pool
     inbox |-> 0,               \* messages sent by the client, not yet read
     sent |-> 0,                \* messages the client has sent
     reads |-> 0,               \* messages the handler has read
     msg |-> NoMsg,             \* the message read last
     results |-> NoResults,     \* what infer_using_server returned
     client_frame_count |-> 0,
     responses |-> 0,           \* number of responses delivered to the client
     last_response |-> NoResponse, \* the latest of them
     failed_sends |-> 0,        \* ws.send calls made after the connection closed
     scene |-> NoScene,         \* what infer_using_server met on the frame in hand
     seen |-> {},               \* values saved_faces_count has had while the frame is in the pool
     ran |-> FALSE]             \* the models were run on the frame in hand

TotalSent == conn["c1"].sent + conn["c2"].sent

\* the three shapes of response the handler builds
ErrorResponse(text) == [type |-> "error", error |-> text]

NoFaceResponse(text) ==
    [type |-> "result", error |-> text, prediction |-> "NO_FACE", confidence |-> 0]

ResultResponse(prediction, confidence) ==
    [type |-> "result", prediction |-> prediction, confidence |-> confidence]

\* bookkeeping attached to a delivered response: the read it answers, the
\* kind of the message read, and what the worker met and did for it
Answered(k) == [for |-> k.reads, kind |-> k.msg.kind, scene |-> k.scene, ran |-> k.ran]

\* variant: ws.send delivers although the connection is closed
SendAfterClose(k, resp) ==
    [k EXCEPT !.responses = @ + 1, !.last_response = resp @@ Answered(k)]

\* await ws.send(...): delivers on an open connection, raises
\* ConnectionClosed on a closed one, which ends the handler
Send(k, resp) ==
    IF k.open
    THEN [k EXCEPT !.responses = @ + 1, !.last_response = resp @@ Answered(k)]
    ELSE [k EXCEPT !.state = "ended", !.exit = "ConnectionClosed",
                   !.failed_sends = @ + 1, !.results = NoResults]

\* send, then `continue` (or fall off the loop body): back to the read
Reply(k, resp) ==
    LET s == Send(k, resp)
    IN  IF s.state = "ended" THEN s
        ELSE [s EXCEPT !.state = "await", !.results = NoResults]

\* an exception other than ConnectionClosed leaves the loop; the handler
\* returns and the library closes the connection
Raise(k) ==
    [k EXCEPT !.state = "ended", !.exit = "Exception", !.open = FALSE,
              !.results = NoResults]

\* variant: an unknown message type is dropped without an answer
UnknownMessageTypeSilent(k) ==
    [k EXCEPT !.state = "await", !.results = NoResults]

\* the else branch of the type test
UnknownMessageType(k) == Reply(k, ErrorResponse("unknown message type"))

TokenRejected(m) == AUTH_TOKEN # "" /\ m.kind = "wrong_token"

\* the message reaches the 'frame' branch
IsFrame(m) ==
    /\ m.kind \in FrameKinds
    /\ ~TokenRejected(m)

\* the 'frame' branch up to the call of the executor
HandleFrame(k, m) ==
    IF m.kind = "frame_bad_id" THEN Raise(k)
    ELSE IF m.kind = "frame_no_data" THEN Reply(k, ErrorResponse("no frame provided"))
    ELSE IF m.kind = "frame_undecodable"
    THEN Reply(k, ErrorResponse("failed to decode frame"))
    ELSE [k EXCEPT !.state = "infer", !.seen = {saved_faces_count}]

\* one iteration of the receive loop up to its first await
HandleMessage(k, m) ==
    IF m.kind = "invalid_json" THEN Reply(k, ErrorResponse("invalid json"))
    ELSE IF m.kind = "non_object" THEN Raise(k)
    ELSE IF TokenRejected(m) THEN Reply(k, ErrorResponse("invalid token"))
    ELSE IF m.kind \in FrameKinds
    THEN HandleFrame([k EXCEPT !.client_frame_count = @ + 1], m)
    ELSE UnknownMessageType(k)

\* variant: a frame without a face is scored like any other
InferUsingServerNoAligner(scene) ==
    IF scene.raises = "save"
    THEN [results |-> [error |-> "inference exception",
                       no_face_text |-> scene.no_face_text],
          saved |-> 0, ran |-> FALSE]
    ELSE IF scene.raises = "inference"
    THEN [results |-> [error |-> "inference exception",
                       no_face_text |-> scene.no_face_text],
          saved |-> 1, ran |-> TRUE]
    ELSE [results |-> FrameResults(models,
                                   [m \in {models[i] : i \in 1..Len(models)} |-> scene.prob],
                                   FAKE_CONFIDENCE_THRESHOLD, REAL_CONFIDENCE_BOOST),
          saved |-> 1, ran |-> TRUE]

\* infer_using_server: what it returns, how many faces it saved, whether the
\* models ran.  no_face_text is whether the lowercased error text contains
\* "no face": 'No face detected' does, an exception's text may
InferUsingServer(scene) ==
    IF use_landmarks /\ ~scene.face
    THEN [results |-> [error |-> "No face detected", no_face_text |-> TRUE],
          saved |-> 0, ran |-> FALSE]
    ELSE IF scene.raises = "save"
    THEN [results |-> [error |-> "inference exception",
                       no_face_text |-> scene.no_face_text],
          saved |-> 0, ran |-> FALSE]
    ELSE IF scene.raises = "inference"
    THEN [results |-> [error |-> "inference exception",
                       no_face_text |-> scene.no_face_text],
          saved |-> 1, ran |-> TRUE]
    ELSE [results |-> FrameResults(models,
                                   [m \in {models[i] : i \in 1..Len(models)} |-> scene.prob],
                                   FAKE_CONFIDENCE_THRESHOLD, REAL_CONFIDENCE_BOOST),
          saved |-> 1, ran |-> TRUE]

\* the handler after the executor returns
AnswerResults(k) ==
    IF "error" \in DOMAIN k.results
    THEN IF k.results.no_face_text
         THEN Reply(k, NoFaceResponse(k.results.error))
         ELSE Reply(k, ErrorResponse(k.results.error))
    ELSE LET final == IF "ENSEMBLE" \in DOMAIN k.results
                      THEN k.results.ENSEMBLE
                      ELSE k.results[models[1]]
         IN  Reply(k, ResultResponse(final.prediction, final.confidence))

\* the module's top level has run: the detection server is loaded, the
\* globals are initialised and nobody has connected yet
InitHandler ==
    /\ pc = "ready"
    /\ \/ /\ ensemble = TRUE
          /\ models = EnsembleNames
          /\ load_outcomes = [m \in {EnsembleNames[i] : i \in 1..3} |-> "ok"]
       \/ /\ ensemble = FALSE
          /\ models = <<"FaceForensics">>
          /\ load_outcomes = [m \in {"FaceForensics"} |-> "ok"]
    /\ FAKE_CONFIDENCE_THRESHOLD = DefaultThreshold
    /\ REAL_CONFIDENCE_BOOST = DefaultBoost
    /\ results = None
    /\ idx = 0
    /\ frames_data = <<>>
    /\ frame_results = <<>>
    /\ fake_count = 0
    /\ real_count = 0
    /\ suspicious_count = 0
    /\ converted_count = 0
    /\ video_results = None
    /\ AUTH_TOKEN \in {"", "secret"}
    /\ use_landmarks \in BOOLEAN
    /\ conn = [c \in Conns |-> NoConn]
    /\ frame_count = 0
    /\ saved_faces_count = 0
    /\ saved_faces = 0
    /\ session_start_time = None
    /\ face_detector = TRUE
    /\ landmark_predictor = use_landmarks
    /\ image = NoImage
    /\ face_aligned = NotCalled
    /\ bbox_norm = NotCalled
    /\ upload = NoUpload
    /\ frame_result_rows = <<>>
    /\ stdin = <<>>
    /\ processed_count = 0

\* a client connects: handler(ws) runs up to its first read.  Connections
\* are named in the order they are accepted
Connect(c) ==
    /\ conn[c].state = "absent"
    /\ c = "c2" => conn["c1"].state # "absent"
    /\ conn' = [conn EXCEPT ![c] = [NoConn EXCEPT !.state = "await", !.open = TRUE]]
    /\ session_start_time' = IF session_start_time = None THEN "set"
                             ELSE session_start_time
    /\ UNCHANGED <<pc, config, results, videoVars, AUTH_TOKEN, use_landmarks,
                   frame_count, saved_faces_count, saved_faces>>
    /\ UNCHANGED faceVars
    /\ UNCHANGED uploadVars
    /\ UNCHANGED promptVars

\* the client sends a message.  Nothing looks at a message before the
\* handler reads it, so what it holds is drawn when it is read
ClientSend(c) ==
    /\ conn[c].open
    /\ TotalSent < MaxMsgs
    /\ conn' = [conn EXCEPT ![c].inbox = @ + 1, ![c].sent = @ + 1]
    /\ UNCHANGED <<pc, config, results, videoVars, AUTH_TOKEN, use_landmarks,
                   frame_count, saved_faces_count, saved_faces,
                   session_start_time>>
    /\ UNCHANGED faceVars
    /\ UNCHANGED uploadVars
    /\ UNCHANGED promptVars

\* the client closes the connection (or the network drops it)
ClientClose(c) ==
    /\ conn[c].open
    /\ conn' = [conn EXCEPT ![c].open = FALSE, ![c].peer_closed = TRUE,
                            ![c].closed_in_flight = (conn[c].state = "infer")]
    /\ UNCHANGED <<pc, config, results, videoVars, AUTH_TOKEN, use_landmarks,
                   frame_count, saved_faces_count, saved_faces,
                   session_start_time>>
    /\ UNCHANGED faceVars
    /\ UNCHANGED uploadVars
    /\ UNCHANGED promptVars

\* `async for raw_msg in ws` yields a message and the handler runs to its
\* next await: the next read, the executor, or its end.  With AUTH_TOKEN
\* unset the token is not looked at and no message is of kind wrong_token
Receive(c) ==
    /\ conn[c].state = "await"
    /\ conn[c].inbox > 0
    /\ \E kind \in MessageKinds :
         /\ kind = "wrong_token" => AUTH_TOKEN # ""
         /\ LET m == [kind |-> kind]
                k == [conn[c] EXCEPT !.inbox = @ - 1, !.reads = @ + 1, !.msg = m,
                                     !.scene = NoScene, !.ran = FALSE]
            IN  /\ conn' = [conn EXCEPT ![c] = HandleMessage(k, m)]
                /\ frame_count' = IF IsFrame(m) THEN frame_count + 1 ELSE frame_count
    /\ UNCHANGED <<pc, config, results, videoVars, AUTH_TOKEN, use_landmarks,
                   saved_faces_count, saved_faces,
                   session_start_time>>
    /\ UNCHANGED faceVars
    /\ UNCHANGED uploadVars
    /\ UNCHANGED promptVars

\* the iteration ends because the connection is closed
ReceiveClosed(c) ==
    /\ conn[c].state = "await"
    /\ ~conn[c].open
    /\ conn' = [conn EXCEPT ![c].state = "ended", ![c].exit = "loop_end"]
    /\ UNCHANGED <<pc, config, results, videoVars, AUTH_TOKEN, use_landmarks,
                   frame_count, saved_faces_count, saved_faces,
                   session_start_time>>
    /\ UNCHANGED faceVars
    /\ UNCHANGED uploadVars
    /\ UNCHANGED promptVars

\* saved_faces_count += 1 in save_preprocessed_face: the global is loaded,
\* one is added and the sum is stored, with no lock around the three; `read`
\* is the value the thread loaded
SavedFacesCountPlusOne(read) == read + 1

\* a pool thread runs infer_using_server on the frame in hand.  Threads of
\* different connections run side by side, so the value a thread loads is
\* any value the counter has had since the frame was handed to the pool
WorkerRun(c) ==
    /\ conn[c].state = "infer"
    /\ \E scene \in WorkerScenes, read \in conn[c].seen :
         LET o == InferUsingServer(scene)
             written == IF o.saved = 1 THEN SavedFacesCountPlusOne(read)
                        ELSE saved_faces_count
         IN  /\ conn' = [d \in Conns |->
                           IF d = c
                           THEN [conn[c] EXCEPT !.state = "infer_done",
                                                !.results = o.results,
                                                !.scene = scene,
                                                !.ran = o.ran,
                                                !.seen = {}]
                           ELSE IF conn[d].state = "infer"
                           THEN [conn[d] EXCEPT !.seen = @ \cup {written}]
                           ELSE conn[d]]
             /\ saved_faces_count' = written
             /\ saved_faces' = saved_faces + o.saved
    /\ UNCHANGED <<pc, config, results, videoVars, AUTH_TOKEN, use_landmarks,
                   frame_count, session_start_time>>
    /\ UNCHANGED faceVars
    /\ UNCHANGED uploadVars
    /\ UNCHANGED promptVars

\* the handler resumes with the worker's results and answers
Respond(c) ==
    /\ conn[c].state = "infer_done"
    /\ conn' = [conn EXCEPT ![c] = AnswerResults(conn[c])]
    /\ UNCHANGED <<pc, config, results, videoVars, AUTH_TOKEN, use_landmarks,
                   frame_count, saved_faces_count, saved_faces,
                   session_start_time>>
    /\ UNCHANGED faceVars
    /\ UNCHANGED uploadVars
    /\ UNCHANGED promptVars

NextHandler ==
    \E c \in Conns :
        \/ Connect(c)
        \/ ClientSend(c)
        \/ ClientClose(c)
        \/ Receive(c)
        \/ ReceiveClosed(c)
        \/ WorkerRun(c)
        \/ Respond(c)

SpecHandler == InitHandler /\ [][NextHandler]_vars

-----------------------------------------------------------------------------
(* Properties of the websocket handler.                                    *)

\* the responses of a connection answer its reads 1, 2, ... in that order:
\* the one delivered n-th answers the n-th read
InOrder(k) == k.responses > 0 => k.last_response.for = k.responses

\* C14: the handler is strictly sequential per connection: every message read
\* gets exactly one response, sent before the next message is read, so the
\* k-th response answers the k-th request.
C14_OneResponsePerRead ==
    \A c \in Conns :
        LET k == conn[c]
        IN  /\ InOrder(k)
            /\ k.state = "await" => k.responses = k.reads
            /\ k.state \in {"infer", "infer_done"} => k.responses = k.reads - 1
            /\ (k.state = "ended" /\ ~k.peer_closed) => k.responses = k.reads

\* C15: every per-frame failure is local: whatever the payload of a message,
\* the handler answers it and stays in its receive loop with the connection
\* open (as long as the client itself has not closed it).
C15_FailuresAreLocal ==
    \A c \in Conns :
        LET k == conn[c]
        IN  (k.reads > 0 /\ ~k.peer_closed) =>
                /\ k.open
                /\ k.state # "ended"
                /\ k.responses >= k.reads - 1

\* the part of C14 and C15 that does not depend on the payload: responses
\* come in the order of the reads, at most one per read
ResponsesFollowReads ==
    \A c \in Conns :
        LET k == conn[c]
        IN  /\ InOrder(k)
            /\ k.responses <= k.reads
            /\ k.state = "await" => k.responses = k.reads

\* a step of one connection leaves every other connection as it was
OthersUntouched ==
    [][\A c \in Conns : conn'[c] # conn[c] =>
            \A d \in Conns \ {c} : conn'[d] = conn[d]]_vars

LastResponse(k) == k.last_response

\* the handler of c reads a message in this step
Reads(c) == conn[c].state = "await" /\ conn'[c].reads = conn[c].reads + 1

\* this step delivers exactly one more response to c, for the message read last
OneMoreResponse(c) ==
    /\ conn'[c].responses = conn[c].responses + 1
    /\ LastResponse(conn'[c]).for = conn'[c].reads

\* the Face Aligner ran on the frame and returned None
AlignerReturnedNone(scene) == use_landmarks /\ ~scene.face

\* C16: a frame that cannot be decoded, and a frame in which the Face Aligner
\* finds no face, each get a terminal response (an error, respectively
\* NO_FACE) without any model inference, and the handler then waits for the
\* next message.
C16_TerminalWithoutInference ==
    [][\A c \in Conns :
         LET k == conn[c]
             after == conn'[c]
         IN  /\ (Reads(c) /\ k.open /\ after.msg.kind = "frame_undecodable") =>
                    /\ OneMoreResponse(c)
                    /\ LastResponse(after).type = "error"
                    /\ ~LastResponse(after).ran
                    /\ after.state = "await"
             /\ (k.state = "infer" /\ after.state = "infer_done"
                    /\ AlignerReturnedNone(after.scene)) =>
                    /\ ~after.ran
                    /\ saved_faces_count' = saved_faces_count
             /\ (k.state = "infer_done" /\ after.state # "infer_done" /\ k.open
                    /\ AlignerReturnedNone(k.scene)) =>
                    /\ OneMoreResponse(c)
                    /\ LastResponse(after).type = "result"
                    /\ LastResponse(after).prediction = "NO_FACE"
                    /\ ~LastResponse(after).ran
                    /\ after.state = "await"]_vars

\* an undecodable frame and a frame without a face have both been answered
C16_Witness ==
    /\ \E c \in Conns : conn[c].last_response.kind = "frame_undecodable"
    /\ \E c \in Conns :
         /\ conn[c].last_response.kind = "frame_image"
         /\ AlignerReturnedNone(conn[c].last_response.scene)
         /\ conn[c].state = "await"

\* C17: a result is NO_FACE (confidence 0.0) iff the Face Aligner returned
\* None; an exception during inference is always answered with type 'error',
\* never with NO_FACE.
C17_NoFaceIffAlignerNone ==
    \A c \in Conns :
        LET r == conn[c].last_response
            no_face == r.type = "result" /\ r.prediction = "NO_FACE"
        IN  /\ no_face => r.confidence = 0
            /\ no_face = (r.kind = "frame_image" /\ AlignerReturnedNone(r.scene))
            /\ (r.kind = "frame_image" /\ ~AlignerReturnedNone(r.scene)
                    /\ r.scene.raises # "nowhere") => r.type = "error"

C20_UnknownTypeAnswered ==
    [][\A c \in Conns :
         (Reads(c) /\ conn[c].open /\ conn'[c].msg.kind = "other_type") =>
             /\ OneMoreResponse(c)
             /\ LastResponse(conn'[c]).type = "error"
             /\ conn'[c].open
             /\ conn'[c].state = "await"
             /\ conn'[c].inbox = conn[c].inbox - 1]_vars

\* an unknown message type was answered and the next message read after it
C20_Witness ==
    \E c \in Conns :
        /\ conn[c].reads = 2
        /\ conn[c].responses = 1
        /\ conn[c].last_response.kind = "other_type"
        /\ conn[c].last_response.error = "unknown message type"

-----------------------------------------------------------------------------
(* More properties of the ensemble verdict and of process_video.           *)

\* sum of the raw fake-probabilities of the models of S
RECURSIVE ProbTotal(_)
ProbTotal(S) ==
    IF S = {} THEN 0
    ELSE LET m == CHOOSE x \in S : TRUE
         IN  results[m].prob + ProbTotal(S \ {m})

\* the votes are one of the four distributions the rules name
NamedDistribution ==
    <<Cardinality(FakeVoters), Cardinality(RealVoters)>> \in
        {<<3, 0>>, <<0, 3>>, <<1, 2>>, <<2, 1>>}

\* the ensemble entry is the mean m of the raw probabilities thresholded at
\* 0.5: FAKE with confidence m, or REAL with confidence 1 - m
IsFallbackMean(e) ==
    LET n == Cardinality(ModelSet)
        total == ProbTotal(ModelSet)
    IN  /\ e.rule = "Fallback: Simple average"
        /\ e.prob * n = total
        /\ IF 2 * total >= One * n
           THEN e.prediction = "FAKE" /\ e.confidence * n = total
           ELSE e.prediction = "REAL" /\ e.confidence * n = One * n - total

\* C22: for every vote distribution other than 3/0, 0/3, 1/2 and 2/1 the
\* ensemble verdict is the fallback: the mean m of the raw fake-probabilities
\* of all voting models, FAKE with confidence m when m >= 0.5, else REAL with
\* confidence 1 - m.
C22_FallbackIsMean ==
    (HasEnsemble /\ ~NamedDistribution) => IsFallbackMean(results.ENSEMBLE)

\* two models split their votes and the mean says FAKE
C22_Witness ==
    /\ HasEnsemble
    /\ Cardinality(FakeVoters) = 1
    /\ Cardinality(RealVoters) = 1
    /\ results.ENSEMBLE.rule = "Fallback: Simple average"
    /\ results.ENSEMBLE.prediction = "FAKE"
    /\ results.ENSEMBLE.confidence > Half

\* C27: when exactly two models loaded in ensemble mode, every frame's
\* ensemble verdict comes from the fallback averaging rule whatever the two
\* votes are: rules 1-4 and the 0.85 override never fire.
C27_TwoModelsAlwaysFallBack ==
    (HasEnsemble /\ ensemble /\ Len(models) = 2) =>
        /\ results.ENSEMBLE.rule = "Fallback: Simple average"
        /\ IsFallbackMean(results.ENSEMBLE)

\* two loaded models agree on FAKE, one of them above 0.85, and the verdict
\* is their mean, not the stronger vote
C27_Witness ==
    /\ HasEnsemble
    /\ ensemble
    /\ Len(models) = 2
    /\ Cardinality(FakeVoters) = 2
    /\ BestConfidence(ModelSet) > OverrideConfidence
    /\ results.ENSEMBLE.confidence < BestConfidence(ModelSet)

\* C28: whenever process_video returns a verdict, at least one scored frame
\* belongs to the winning bucket, so video_confidence is a mean over a
\* non-empty set and never the empty-bucket default 0.0; a video without a
\* scored frame returns an error and no verdict.
C28_WinningBucketNonEmpty ==
    /\ VideoJudged =>
          LET winners == FramesInBucket(video_results.video_verdict)
          IN  /\ winners # {}
              /\ video_results.video_confidence.n = Cardinality(winners)
              /\ video_results.video_confidence.sum > 0
    /\ (pc = "done" /\ frame_results = <<>>) => "error" \in DOMAIN video_results

\* a verdict was returned although one of the buckets is empty
C28_Witness ==
    /\ VideoJudged
    /\ FramesInBucket("FAKE") = {}
    /\ FramesInBucket("REAL") # {}
    /\ NoFaceFrames # {}


(***************************************************************************)
(* Face geometry: extract_aligned_face of demo_server.py and               *)
(* detect_face_bbox_normalized of native_host/server.py, as functions of   *)
(* the image size and of the rectangles the dlib detector returns          *)
(***************************************************************************)

Max(a, b) == IF a >= b THEN a ELSE b

\* image sides and rectangle coordinates the functions are applied to: the
\* coordinates reach past every side of every image
Sides == {1, 4, 8}
Coordinates == {-2, 0, 1, 3, 4, 6, 9}

\* a dlib rectangle the detector returns is not empty
Rectangles ==
    {[left |-> l, top |-> t, right |-> r, bottom |-> b] :
        <<l, r>> \in {p \in Coordinates \X Coordinates : p[1] <= p[2]},
        <<t, b>> \in {p \in Coordinates \X Coordinates : p[1] <= p[2]}}

\* a second detection in the same frame
OtherFaces == {[left |-> 0, top |-> 0, right |-> 0, bottom |-> 0],
               [left |-> 1, top |-> 0, right |-> 4, bottom |-> 3]}

FaceLists ==
    {<<>>} \cup {<<r>> : r \in Rectangles}
           \cup {<<r, o>> : r \in Rectangles, o \in OtherFaces}
           \cup {<<o, r>> : r \in Rectangles, o \in OtherFaces}

\* get_keypts / _img_align_crop either work on the frame or raise
Images ==
    [W : Sides, H : Sides, faces : FaceLists, alignment : {"ok", "raises"}]

\* rect.width() * rect.height() of dlib
RectArea(rect) ==
    (rect.right - rect.left + 1) * (rect.bottom - rect.top + 1)

\* max(faces, key=...): the first face of the largest area
LargestFace(faces) ==
    LET best == CHOOSE i \in 1..Len(faces) :
                    /\ \A j \in 1..Len(faces) :
                           RectArea(faces[j]) <= RectArea(faces[i])
                    /\ \A j \in 1..(i - 1) :
                           RectArea(faces[j]) < RectArea(faces[i])
    IN  faces[best]

\* int(0.25 * x): truncation towards zero
IntQuarter(x) == IF x >= 0 THEN x \div 4 ELSE -((-x) \div 4)

\* number of elements of a[start:stop] on an axis of length n (numpy)
SliceIndex(i, n) == IF i < 0 THEN Max(0, i + n) ELSE Min(i, n)
SliceLen(start, stop, n) == Max(0, SliceIndex(stop, n) - SliceIndex(start, n))

\* the bounding-box fallback of extract_aligned_face
BboxCrop(face, W, H) ==
    LET left == Max(0, face.left)
        top == Max(0, face.top)
        right == Min(W, face.right)
        bottom == Min(H, face.bottom)
        w == right - left
        h == bottom - top
        margin == IntQuarter(Max(w, h))
        cx == (left + right) \div 2
        cy == (top + bottom) \div 2
        new_left == Max(0, cx - (w \div 2) - margin)
        new_top == Max(0, cy - (h \div 2) - margin)
        new_right == Min(W, cx + (w \div 2) + margin)
        new_bottom == Min(H, cy + (h \div 2) + margin)
    IN  [new_left |-> new_left, new_top |-> new_top,
         new_right |-> new_right, new_bottom |-> new_bottom,
         rows |-> SliceLen(new_top, new_bottom, H),
         cols |-> SliceLen(new_left, new_right, W)]

ReturnedNone == [called |-> TRUE, returned |-> "None"]

\* the bounding-box fallback: None for an empty crop, else the resized crop
BboxFallback(face, img) ==
    LET crop == BboxCrop(face, img.W, img.H)
    IN  IF crop.rows * crop.cols = 0 THEN ReturnedNone
        ELSE [called |-> TRUE, returned |-> "bbox_crop", face |-> face,
              crop |-> crop]

\* variant: a failed landmark alignment gives up on the frame
AfterAlignmentErrorGivesUp(face, img) == ReturnedNone

\* except Exception: the failure is printed and the bounding-box fallback runs
AfterAlignmentError(face, img) == BboxFallback(face, img)

\* extract_aligned_face(image)
ExtractAlignedFaceOf(img) ==
    IF ~face_detector THEN ReturnedNone
    ELSE IF Len(img.faces) = 0 THEN ReturnedNone
    ELSE LET face == LargestFace(img.faces)
         IN  IF landmark_predictor
             THEN IF img.alignment = "ok"
                  THEN [called |-> TRUE, returned |-> "landmarks", face |-> face]
                  ELSE AfterAlignmentError(face, img)
             ELSE BboxFallback(face, img)

\* variant: only a rectangle of negative extent is dropped
EmptyAfterClampingStrict(x1, y1, x2, y2) == x2 < x1 \/ y2 < y1

\* the test that drops a rectangle left empty by the clamping
EmptyAfterClamping(x1, y1, x2, y2) == x2 <= x1 \/ y2 <= y1

\* detect_face_bbox_normalized(img_bgr); a coordinate is num / den
DetectFaceBboxNormalizedOf(img) ==
    IF ~face_detector THEN ReturnedNone
    ELSE IF Len(img.faces) = 0 THEN ReturnedNone
    ELSE LET face == LargestFace(img.faces)
             x1 == Max(0, face.left)
             y1 == Max(0, face.top)
             x2 == Min(img.W - 1, face.right)
             y2 == Min(img.H - 1, face.bottom)
         IN  IF EmptyAfterClamping(x1, y1, x2, y2) THEN ReturnedNone
             ELSE [called |-> TRUE, returned |-> "bbox",
                   x |-> [num |-> x1, den |-> img.W],
                   y |-> [num |-> y1, den |-> img.H],
                   w |-> [num |-> x2 - x1, den |-> img.W],
                   h |-> [num |-> y2 - y1, den |-> img.H]]

\* a server with its detectors loaded or not, about to look at one frame
InitFace ==
    /\ pc = "ready"
    /\ ensemble = FALSE
    /\ models = <<"FaceForensics">>
    /\ load_outcomes = [m \in {"FaceForensics"} |-> "ok"]
    /\ FAKE_CONFIDENCE_THRESHOLD = DefaultThreshold
    /\ REAL_CONFIDENCE_BOOST = DefaultBoost
    /\ results = None
    /\ idx = 0
    /\ frames_data = <<>>
    /\ frame_results = <<>>
    /\ fake_count = 0
    /\ real_count = 0
    /\ suspicious_count = 0
    /\ converted_count = 0
    /\ video_results = None
    /\ AUTH_TOKEN = ""
    /\ conn = [c \in Conns |-> NoConn]
    /\ frame_count = 0
    /\ saved_faces_count = 0
    /\ saved_faces = 0
    /\ session_start_time = None
    /\ face_detector \in BOOLEAN
    /\ landmark_predictor \in BOOLEAN
    /\ use_landmarks = (face_detector /\ landmark_predictor)
    /\ image \in {i \in Images : landmark_predictor \/ i.alignment = "ok"}
    /\ face_aligned = NotCalled
    /\ bbox_norm = NotCalled
    /\ upload = NoUpload
    /\ frame_result_rows = <<>>
    /\ stdin = <<>>
    /\ processed_count = 0

ExtractAlignedFace ==
    /\ pc = "ready"
    /\ face_aligned = NotCalled
    /\ face_aligned' = ExtractAlignedFaceOf(image)
    /\ UNCHANGED <<pc, config, results, videoVars, wsVars, face_detector,
                   landmark_predictor, image, bbox_norm, uploadVars,
                   promptVars>>

DetectFaceBboxNormalized ==
    /\ pc = "ready"
    /\ face_aligned # NotCalled
    /\ bbox_norm = NotCalled
    /\ bbox_norm' = DetectFaceBboxNormalizedOf(image)
    /\ UNCHANGED <<pc, config, results, videoVars, wsVars, face_detector,
                   landmark_predictor, image, face_aligned, uploadVars,
                   promptVars>>

NextFace ==
    \/ ExtractAlignedFace
    \/ DetectFaceBboxNormalized

SpecFace == InitFace /\ [][NextFace]_vars


(***************************************************************************)
(* Properties of the face geometry                                         *)
(***************************************************************************)

\* a coordinate num / den lies in [0, 1], respectively in (0, 1]
InUnitInterval(c) == 0 <= c.num /\ c.num <= c.den
PositiveInUnitInterval(c) == 0 < c.num /\ c.num <= c.den

\* the largest detected rectangle, clamped to the pixels of the image
ClampedWidth(img) ==
    Min(img.W - 1, LargestFace(img.faces).right)
        - Max(0, LargestFace(img.faces).left)
ClampedHeight(img) ==
    Min(img.H - 1, LargestFace(img.faces).bottom)
        - Max(0, LargestFace(img.faces).top)

\* C21: for every image size and every rectangle the detector returns, the
\* bounding box is null or [x, y, w, h] with x, y in [0, 1], w and h in
\* (0, 1]; a rectangle that is empty after clamping to the image gives null
C21_BboxNormalizedOrNull ==
    bbox_norm.called =>
        /\ \/ bbox_norm.returned = "None"
           \/ /\ bbox_norm.returned = "bbox"
              /\ InUnitInterval(bbox_norm.x)
              /\ InUnitInterval(bbox_norm.y)
              /\ PositiveInUnitInterval(bbox_norm.w)
              /\ PositiveInUnitInterval(bbox_norm.h)
        /\ (/\ face_detector
            /\ image.faces # <<>>
            /\ (ClampedWidth(image) <= 0 \/ ClampedHeight(image) <= 0))
               => bbox_norm.returned = "None"

\* a box was returned for a rectangle that reaches past the left and the
\* bottom edge of the image
C21_Witness ==
    /\ bbox_norm.called
    /\ bbox_norm.returned = "bbox"
    /\ LargestFace(image.faces).left < 0
    /\ LargestFace(image.faces).bottom > image.H

\* the fallback crop is computed: a face is detected and the landmark
\* alignment is not configured or has raised
FallbackReached ==
    /\ face_aligned.called
    /\ face_detector
    /\ image.faces # <<>>
    /\ ~(landmark_predictor /\ image.alignment = "ok")

CropBoundsInside(crop, W, H) ==
    /\ 0 <= crop.new_left
    /\ crop.new_left <= crop.new_right
    /\ crop.new_right <= W
    /\ 0 <= crop.new_top
    /\ crop.new_top <= crop.new_bottom
    /\ crop.new_bottom <= H

NoFaceRegion(img) == ~face_detector \/ img.faces = <<>>

\* the array cut out by the fallback has no element
EmptyFallbackCrop(img) ==
    LET crop == BboxCrop(LargestFace(img.faces), img.W, img.H)
    IN  crop.rows = 0 \/ crop.cols = 0

\* C24: extract_aligned_face returns None exactly when no face region is
\* detected or the fallback crop has zero area; the region used is the one of
\* the largest area; a failure of the landmark alignment does not give None
\* by itself but falls through to the bounding-box crop of the same region
C24_NoneIffNoFaceOrEmptyCrop ==
    face_aligned.called =>
        /\ (face_aligned.returned = "None") =
              (\/ NoFaceRegion(image)
               \/ FallbackReached /\ EmptyFallbackCrop(image))
        /\ face_aligned.returned # "None" =>
              /\ \E i \in 1..Len(image.faces) : image.faces[i] = face_aligned.face
              /\ \A i \in 1..Len(image.faces) :
                    RectArea(image.faces[i]) <= RectArea(face_aligned.face)
        /\ (~NoFaceRegion(image) /\ landmark_predictor
                /\ image.alignment = "raises") =>
              \/ /\ face_aligned.returned = "bbox_crop"
                 /\ face_aligned.crop =
                       BboxCrop(LargestFace(image.faces), image.W, image.H)
              \/ /\ face_aligned.returned = "None"
                 /\ EmptyFallbackCrop(image)

\* the alignment raised on the larger, second face of a frame and its
\* bounding-box crop was returned
C24_Witness ==
    /\ face_aligned.called
    /\ landmark_predictor
    /\ image.alignment = "raises"
    /\ Len(image.faces) = 2
    /\ face_aligned.returned = "bbox_crop"
    /\ face_aligned.face = image.faces[2]
    /\ face_aligned.face # image.faces[1]

\* C23: with no landmark detector configured every frame still goes through
\* face detection, in process_image / process_video and in the streaming
\* handler alike: a frame with a face is classified on the fallback crop, a
\* frame without one is skipped or answered NO_FACE, and no frame is
\* classified on the whole image.  Here: the streaming handler does not run
\* the models on a frame that shows no face
C23_StreamingSkipsFacelessFrames ==
    \A c \in Conns :
        LET r == conn[c].last_response
        IN  (r.kind = "frame_image" /\ face_detector /\ ~landmark_predictor
                /\ ~r.scene.face) =>
               /\ ~r.ran
               /\ r.type = "result"
               /\ r.prediction = "NO_FACE"


-----------------------------------------------------------------------------
(***************************************************************************)
(* The backend's two upload paths: process_video_sync of videos/tasks.py   *)
(* and process_video_upload of videos/upload_handler.py.  Each sends the   *)
(* sampled frames of an uploaded video to the streaming endpoint and       *)
(* stores FrameResult rows                                                 *)
(***************************************************************************)

UploadPaths == {"process_video_sync", "process_video_upload"}

\* what one exchange with the endpoint gives the backend: a result response
\* (REAL / FAKE, or NO_FACE), an error response, or no response at all
\* because the send or the receive raised
Exchanges ==
    {[kind |-> "result", prediction |-> p, confidence |-> c, is_complete |-> d] :
        p \in {"REAL", "FAKE"}, c \in HandlerProbValues, d \in BOOLEAN}
    \cup {[kind |-> k, prediction |-> "NO_FACE", confidence |-> 0,
           is_complete |-> FALSE] : k \in {"no_face"}}
    \cup {[kind |-> k, prediction |-> "none", confidence |-> 0,
           is_complete |-> FALSE] : k \in {"error", "send_failed", "recv_failed"}}

\* the dictionary carries a 'prediction'; its 'type' is 'result'
HasPrediction(x) == x.kind \in {"result", "no_face"}
IsResultType(x) == x.kind \in {"result", "no_face"}

\* apply_confidence_transformations, then confidence * 100.0
TransformedPercent(x) ==
    IF x.prediction = "NO_FACE" THEN 0
    ELSE IF x.confidence > One THEN (x.confidence \div 100) * 100
    ELSE x.confidence * 100

\* a FrameResult row; `answer` records the exchange it was stored after
FrameResultRow(number, prediction, confidence, x) ==
    [frame_number |-> number, prediction |-> prediction,
     confidence |-> confidence, answer |-> x.kind]

\* tasks.py: the row stored for a sampled frame
SyncRow(number, x) ==
    IF HasPrediction(x)
    THEN FrameResultRow(number, x.prediction, TransformedPercent(x), x)
    ELSE FrameResultRow(number, "REAL", 50 * One, x)

InitUpload ==
    /\ pc = "ready"
    /\ ensemble = FALSE
    /\ models = <<"FaceForensics">>
    /\ load_outcomes = [m \in {"FaceForensics"} |-> "ok"]
    /\ FAKE_CONFIDENCE_THRESHOLD = DefaultThreshold
    /\ REAL_CONFIDENCE_BOOST = DefaultBoost
    /\ results = None
    /\ idx = 0
    /\ frames_data = <<>>
    /\ frame_results = <<>>
    /\ fake_count = 0
    /\ real_count = 0
    /\ suspicious_count = 0
    /\ converted_count = 0
    /\ video_results = None
    /\ AUTH_TOKEN = ""
    /\ use_landmarks = TRUE
    /\ conn = [c \in Conns |-> NoConn]
    /\ frame_count = 0
    /\ saved_faces_count = 0
    /\ saved_faces = 0
    /\ session_start_time = None
    /\ face_detector = TRUE
    /\ landmark_predictor = TRUE
    /\ image = NoImage
    /\ face_aligned = NotCalled
    /\ bbox_norm = NotCalled
    /\ upload \in {[path |-> p, frame_count |-> 0, processed_count |-> 0,
                    status |-> "processing"] : p \in UploadPaths}
    /\ frame_result_rows = <<>>
    /\ stdin = <<>>
    /\ processed_count = 0

\* tasks.py, one sampled frame: process_frame_with_ws returns the response
\* or None, and a row is stored either way
ProcessVideoSyncFrame ==
    /\ upload.path = "process_video_sync"
    /\ upload.status = "processing"
    /\ upload.frame_count < MaxFrames
    /\ \E x \in Exchanges :
          /\ frame_result_rows' =
                Append(frame_result_rows, SyncRow(upload.processed_count, x))
          /\ upload' = [upload EXCEPT !.frame_count = @ + 1,
                                      !.processed_count = @ + 1]
    /\ UNCHANGED <<pc, config, results, videoVars, wsVars, faceVars, promptVars>>

\* upload_handler.py, one sampled frame: send, receive, store
ProcessVideoUploadFrame ==
    /\ upload.path = "process_video_upload"
    /\ upload.status = "processing"
    /\ upload.frame_count < MaxFrames
    /\ \E x \in Exchanges :
          IF x.kind = "send_failed"
          THEN \* emit_error, break, session marked completed
               /\ upload' = [upload EXCEPT !.status = "completed"]
               /\ UNCHANGED frame_result_rows
          ELSE IF x.kind = "recv_failed" \/ ~IsResultType(x)
          THEN /\ upload' = [upload EXCEPT !.frame_count = @ + 1]
               /\ UNCHANGED frame_result_rows
          ELSE /\ frame_result_rows' =
                     Append(frame_result_rows,
                            FrameResultRow(upload.processed_count, x.prediction,
                                           x.confidence * 100, x))
               /\ upload' =
                     IF x.is_complete
                     THEN [upload EXCEPT !.processed_count = @ + 1,
                                         !.status = "completed"]
                     ELSE [upload EXCEPT !.frame_count = @ + 1,
                                         !.processed_count = @ + 1]
    /\ UNCHANGED <<pc, config, results, videoVars, wsVars, faceVars, promptVars>>

\* cap.read() finds no more frame: cleanup, status 'completed'
FinishUpload ==
    /\ upload.status = "processing"
    /\ upload' = [upload EXCEPT !.status = "completed"]
    /\ UNCHANGED <<pc, config, results, videoVars, wsVars, faceVars,
                   frame_result_rows, promptVars>>

NextUpload ==
    \/ ProcessVideoSyncFrame
    \/ ProcessVideoUploadFrame
    \/ FinishUpload

SpecUpload == InitUpload /\ [][NextUpload]_vars

\* C26: a frame for which the streaming endpoint returned no verdict (an
\* error response, or an exchange that failed) is left out of the persisted
\* per-frame verdicts: neither upload path stores a REAL or FAKE FrameResult
\* row for it
C26_NoRowWithoutVerdict ==
    \A i \in 1..Len(frame_result_rows) :
        frame_result_rows[i].answer \in {"error", "send_failed", "recv_failed"}
            => frame_result_rows[i].prediction \notin {"REAL", "FAKE"}


-----------------------------------------------------------------------------
(***************************************************************************)
(* run_interactive: the prompt loop of demo_server.py over a standard      *)
(* input that ends                                                         *)
(***************************************************************************)

MaxLines == 2

\* what a line typed at the prompt turns out to be, after strip()
LineKinds == {"quit", "empty", "missing_path", "folder", "folder_error",
              "video", "image", "unsupported", "raises"}

\* every input stream of at most MaxLines lines, followed by end of file
InputStreams == UNION {[1..n -> LineKinds] : n \in 0..MaxLines}

\* file_path.lower() in ['quit', 'exit', 'q']
IsQuit(line) == line = "quit"

\* the lines after which processed_count += 1 is reached
CountsAsProcessed(line) == line \in {"folder", "video", "image"}

InitInteractive ==
    /\ pc = "prompt"
    /\ \/ /\ ensemble = TRUE
          /\ models = EnsembleNames
          /\ load_outcomes = [m \in {EnsembleNames[i] : i \in 1..3} |-> "ok"]
       \/ /\ ensemble = FALSE
          /\ models = <<"FaceForensics">>
          /\ load_outcomes = [m \in {"FaceForensics"} |-> "ok"]
    /\ FAKE_CONFIDENCE_THRESHOLD = DefaultThreshold
    /\ REAL_CONFIDENCE_BOOST = DefaultBoost
    /\ results = None
    /\ idx = 0
    /\ frames_data = <<>>
    /\ frame_results = <<>>
    /\ fake_count = 0
    /\ real_count = 0
    /\ suspicious_count = 0
    /\ converted_count = 0
    /\ video_results = None
    /\ AUTH_TOKEN = ""
    /\ use_landmarks = TRUE
    /\ conn = [c \in Conns |-> NoConn]
    /\ frame_count = 0
    /\ saved_faces_count = 0
    /\ saved_faces = 0
    /\ session_start_time = None
    /\ face_detector = TRUE
    /\ landmark_predictor = TRUE
    /\ image = NoImage
    /\ face_aligned = NotCalled
    /\ bbox_norm = NotCalled
    /\ upload = NoUpload
    /\ frame_result_rows = <<>>
    /\ stdin \in InputStreams
    /\ processed_count = 0

\* one pass through the try block: input() returns the next line, which is
\* acted on up to the break, the continue or the end of the loop body; a
\* line whose processing raises leaves through `except Exception`
ReadLine ==
    /\ pc = "prompt"
    /\ stdin # <<>>
    /\ stdin' = Tail(stdin)
    /\ LET line == Head(stdin)
       IN  /\ pc' = IF IsQuit(line) THEN "stopped"
                    ELSE IF line = "raises" THEN "except"
                    ELSE "prompt"
           /\ processed_count' = IF CountsAsProcessed(line)
                                 THEN processed_count + 1
                                 ELSE processed_count
    /\ UNCHANGED <<config, results, videoVars, wsVars, faceVars, uploadVars>>

\* input() at the end of the stream raises EOFError, an Exception
ReadEndOfFile ==
    /\ pc = "prompt"
    /\ stdin = <<>>
    /\ pc' = "except"
    /\ UNCHANGED <<config, results, videoVars, wsVars, faceVars, uploadVars,
                   promptVars>>

\* except Exception: the error and the traceback are printed and the loop
\* goes round again
PrintError ==
    /\ pc = "except"
    /\ pc' = "prompt"
    /\ UNCHANGED <<config, results, videoVars, wsVars, faceVars, uploadVars,
                   promptVars>>

\* except KeyboardInterrupt: Ctrl-C at the prompt ends the loop
KeyboardInterrupt ==
    /\ pc = "prompt"
    /\ pc' = "stopped"
    /\ UNCHANGED <<config, results, videoVars, wsVars, faceVars, uploadVars,
                   promptVars>>

NextInteractive ==
    \/ ReadLine
    \/ ReadEndOfFile
    \/ PrintError
    \/ KeyboardInterrupt

SpecInteractive == InitInteractive /\ [][NextInteractive]_vars

\* the loop is one thread that always takes its next step; nobody is bound
\* to press Ctrl-C
SpecInteractiveFair ==
    /\ SpecInteractive
    /\ WF_vars(ReadLine)
    /\ WF_vars(ReadEndOfFile)
    /\ WF_vars(PrintError)

\* C30: run_interactive eventually terminates on every input stream that
\* ends: it leaves its loop after quit / exit / q, and also when reading the
\* next path fails because standard input is at end of file
C30_TerminatesOnEndOfInput == <>(pc = "stopped")


-----------------------------------------------------------------------------
(* The counter of saved faces                                              *)

\* no frame is in the worker pool
Quiescent == \A c \in Conns : conn[c].state # "infer"

\* C29: saved_faces_count, incremented in worker-pool threads that run for
\* different connections, equals at every quiescent point the number of face
\* images saved so far: no increment is lost under any interleaving
C29_NoIncrementLost == Quiescent => saved_faces_count = saved_faces

====
